---- MODULE Spec2Model ----
(***************************************************************************)
(* Embedding service: BGE-m3-ko embedding singleton, Milvus client         *)
(* singleton and the FastAPI handlers that drive them.                     *)
(*                                                                         *)
(* Two parts of the program are modelled.                                  *)
(*   - The lazy singletons (EmbeddingModel.get_instance,                   *)
(*     MilvusManager.get_instance) called by several callers:              *)
(*     specification SpecSingleton.                                        *)
(*   - The request handlers of main.py over the Milvus backend, which      *)
(*     interleave at their await points: specification Spec, and SpecSeq   *)
(*     where one request is served at a time.                              *)
(* The embedding model and the Milvus server are external: the model is a  *)
(* function text -> vector, the server a store of collections and rows.    *)
(* A vector is the record [dim, tag]: its length and its content.          *)
(***************************************************************************)
EXTENDS Naturals, Sequences, FiniteSets, TLC

VARIABLES
    modelAvailable,   \* environment: SentenceTransformer(MODEL_NAME) can be loaded
    milvusAvailable,  \* environment: AsyncMilvusClient(**kwargs) can be constructed
    embInstance,      \* EmbeddingModel._instance is not None
    embModel,         \* EmbeddingModel._model is not None
    mvInstance,       \* MilvusManager._instance is not None
    mvClient,         \* MilvusManager._instance.client is not None
    epc, eout,        \* per caller: position in / outcome of EmbeddingModel.get_instance
    mpc, mout,        \* per caller: position in / outcome of MilvusManager.get_instance
    loadAttempts,     \* history: SentenceTransformer(...) constructions started
    loadFailures,     \* history: of these, how many raised
    connectAttempts,  \* history: connect() calls
    appState,         \* lifespan: "starting", "serving", "failed"
    reachable,        \* environment: the Milvus server answers
    colls,            \* Milvus: sequence of [name, dim], in creation order
    rows,             \* Milvus: per collection name, the stored rows
    pending,          \* per client: a create_collection awaiting its backend create
    resp,             \* the response a handler has just produced, until it is sent
    prev              \* summary of the response sent last

singletonVars == <<modelAvailable, milvusAvailable, embInstance, embModel,
                   mvInstance, mvClient>>
callerVars == <<epc, eout, mpc, mout, loadAttempts, loadFailures, connectAttempts>>
serveVars == <<appState, reachable, colls, rows, pending, resp, prev>>
vars == <<singletonVars, callerVars, serveVars>>

----------------------------------------------------------------------------
(* Bounds and inputs *)

MaxItems == 2
MaxRows == 2

DIMENSION == 1024
DefaultLimit == 5
WrongDim == DIMENSION + 1

Callers == {"k1", "k2"}
Clients == {"p1", "p2"}
Names == {"c"}
Texts == {"a", "b"}
Dims == {DIMENSION, WrongDim}
Limits == {1, DefaultLimit}

\* Optional[T]: None is the empty sequence, a value x is <<x>>
None == <<>>
Some(x) == <<x>>
GoodVec == [dim |-> DIMENSION, tag |-> <<"q">>]
BadVec == [dim |-> WrongDim, tag |-> <<"q">>]
Vectors == {GoodVec, BadVec}

\* schemas.py InsertItem: text, category = "", metadata = {}, embedding = None
Items == [text : Texts, category : {""}, metadata : {"{}"},
          embedding : {None, Some(GoodVec)}]
OutputFields == {None, Some(<<"text">>)}
Batches == UNION {[1..n -> Items] : n \in 0..MaxItems}
TextBatches == UNION {[1..n -> Texts] : n \in 0..MaxItems}

----------------------------------------------------------------------------
(* EmbeddingModel.get_instance, one step per statement a thread can be     *)
(* preempted at (embedding_model.py:19-35).                                *)

\* get_instance: "if cls._instance is None"
EmbCheck(k) ==
    /\ epc[k] = "idle"
    /\ IF embInstance
         THEN /\ epc' = [epc EXCEPT ![k] = "done"]
              /\ eout' = [eout EXCEPT ![k] = "instance"]
         ELSE /\ epc' = [epc EXCEPT ![k] = "construct"]
              /\ eout' = eout
    /\ UNCHANGED <<singletonVars, mpc, mout, loadAttempts, loadFailures,
                   connectAttempts, serveVars>>

\* __init__: "if EmbeddingModel._model is None"
EmbInitCheck(k) ==
    /\ epc[k] = "construct"
    /\ epc' = [epc EXCEPT ![k] = IF embModel THEN "assign" ELSE "load"]
    /\ UNCHANGED <<singletonVars, eout, mpc, mout, loadAttempts, loadFailures,
                   connectAttempts, serveVars>>

\* __init__: "_model = SentenceTransformer(MODEL_NAME)", or log and re-raise
EmbLoad(k) ==
    /\ epc[k] = "load"
    /\ loadAttempts' = loadAttempts + 1
    /\ IF modelAvailable
         THEN /\ embModel' = TRUE
              /\ epc' = [epc EXCEPT ![k] = "assign"]
              /\ UNCHANGED <<eout, loadFailures>>
         ELSE /\ embModel' = embModel
              /\ loadFailures' = loadFailures + 1
              /\ epc' = [epc EXCEPT ![k] = "done"]
              /\ eout' = [eout EXCEPT ![k] = "raised"]
    /\ UNCHANGED <<modelAvailable, milvusAvailable, embInstance, mvInstance,
                   mvClient, mpc, mout, connectAttempts, serveVars>>

\* get_instance: "cls._instance = cls()" completes; "return cls._instance"
EmbAssign(k) ==
    /\ epc[k] = "assign"
    /\ embInstance' = TRUE
    /\ epc' = [epc EXCEPT ![k] = "done"]
    /\ eout' = [eout EXCEPT ![k] = "instance"]
    /\ UNCHANGED <<modelAvailable, milvusAvailable, embModel, mvInstance,
                   mvClient, mpc, mout, loadAttempts, loadFailures,
                   connectAttempts, serveVars>>

(* MilvusManager.get_instance (milvus_manager.py:19-38).  connect() holds  *)
(* no await of its own, so the coroutine runs to its end in one step of    *)
(* the event loop.                                                         *)

\* connect(): self.client = AsyncMilvusClient(**kwargs), TRUE when it is set
Connect(available) == available

MvGetInstance(k) ==
    /\ mpc[k] = "idle"
    /\ mpc' = [mpc EXCEPT ![k] = "done"]
    /\ IF ~mvInstance
         THEN /\ mvInstance' = TRUE
              /\ connectAttempts' = connectAttempts + 1
              /\ mvClient' = Connect(milvusAvailable)
              /\ mout' = [mout EXCEPT ![k] =
                            IF Connect(milvusAvailable) THEN "connected"
                                                        ELSE "raised"]
         ELSE /\ mout' = [mout EXCEPT ![k] =
                            IF mvClient THEN "connected" ELSE "unconnected"]
              /\ UNCHANGED <<mvInstance, mvClient, connectAttempts>>
    /\ UNCHANGED <<modelAvailable, milvusAvailable, embInstance, embModel,
                   epc, eout, loadAttempts, loadFailures, serveVars>>

----------------------------------------------------------------------------
(* The embedding model: text -> unit vector of DIMENSION components        *)
(* (embedding_model.py:41-49).                                             *)

encode(text) == [dim |-> DIMENSION, tag |-> <<"enc", text>>]

encode_batch(texts) == [i \in 1..Len(texts) |-> encode(texts[i])]

----------------------------------------------------------------------------
(* The Milvus server behind AsyncMilvusClient.  A call either returns or   *)
(* raises pymilvus' MilvusException, which is not a ValueError.            *)

NoExc == "none"
MilvusException == "MilvusException"

InList(x, seq) == \E i \in 1..Len(seq) : seq[i] = x

Count(x, seq) == Cardinality({i \in 1..Len(seq) : seq[i] = x})

BkNames(cs) == [i \in 1..Len(cs) |-> cs[i].name]

BkHas(cs, n) == InList(n, BkNames(cs))

BkDim(cs, n) == cs[CHOOSE i \in 1..Len(cs) : cs[i].name = n].dim

\* client.list_collections()
BkList(up, cs) ==
    IF ~up THEN [exc |-> MilvusException, names |-> <<>>]
    ELSE [exc |-> NoExc, names |-> BkNames(cs)]

\* client.create_collection(collection_name, schema, index_params): a name
\* that exists with the same schema is left as it is, with another schema
\* the call is rejected
BkCreate(up, cs, n, dim) ==
    IF ~up THEN [exc |-> MilvusException, colls |-> cs, effect |-> "none"]
    ELSE IF BkHas(cs, n)
         THEN IF BkDim(cs, n) = dim
              THEN [exc |-> NoExc, colls |-> cs, effect |-> "noop"]
              ELSE [exc |-> MilvusException, colls |-> cs, effect |-> "none"]
         ELSE [exc |-> NoExc, colls |-> Append(cs, [name |-> n, dim |-> dim]),
               effect |-> "created"]

\* client.insert(collection_name, data): all rows or none, ids assigned by
\* the server (auto_id)
BkInsert(up, cs, rs, n, data) ==
    IF \/ ~up
       \/ ~BkHas(cs, n)
       \/ \E i \in 1..Len(data) : data[i].embedding.dim # BkDim(cs, n)
    THEN [exc |-> MilvusException, rows |-> rs, ids |-> <<>>]
    ELSE [exc |-> NoExc,
          rows |-> rs \o [i \in 1..Len(data) |->
                            [id |-> Len(rs) + i, text |-> data[i].text,
                             category |-> data[i].category,
                             metadata |-> data[i].metadata,
                             embedding |-> data[i].embedding]],
          ids |-> [i \in 1..Len(data) |-> Len(rs) + i]]

\* cosine similarity of unit vectors, up to what the model distinguishes
Similarity(q, e) == IF q = e THEN 1 ELSE 0

Take(seq, k) == SubSeq(seq, 1, IF k < Len(seq) THEN k ELSE Len(seq))

Entity(row, fields) == [f \in {fields[i] : i \in 1..Len(fields)} |-> row[f]]

\* the limit nearest rows of one query vector, best match first
TopK(rs, q, limit, fields) ==
    LET best == SelectSeq(rs, LAMBDA r : Similarity(q, r.embedding) = 1)
        rest == SelectSeq(rs, LAMBDA r : Similarity(q, r.embedding) = 0)
        hit(r) == [id |-> r.id, distance |-> Similarity(q, r.embedding),
                   entity |-> Entity(r, fields)]
        all == best \o rest
    IN  Take([i \in 1..Len(all) |-> hit(all[i])], limit)

\* client.search(collection_name, data, limit, output_fields, search_params)
BkSearch(up, cs, rs, n, queries, limit, fields) ==
    IF \/ ~up
       \/ ~BkHas(cs, n)
       \/ \E i \in 1..Len(queries) : queries[i].dim # BkDim(cs, n)
    THEN [exc |-> MilvusException, results |-> <<>>]
    ELSE [exc |-> NoExc,
          results |-> [i \in 1..Len(queries) |->
                         TopK(rs, queries[i], limit, fields)]]

\* client.drop_collection(collection_name)
BkDrop(up, cs, n) ==
    IF ~up THEN [exc |-> MilvusException, colls |-> cs]
    ELSE [exc |-> NoExc, colls |-> SelectSeq(cs, LAMBDA c : c.name # n)]

----------------------------------------------------------------------------
(* MilvusManager (milvus_manager.py) *)

\* variant: the existence check never matches
AlreadyExistsNever(name, listed) == FALSE

\* create_collection: "if name in collections", on the list just read
AlreadyExists(name, listed) == InList(name, listed)

\* insert: {"insert_count": len(data), "ids": result.get("ids", [])}
MilvusInsert(bk, data) ==
    [exc |-> bk.exc, insert_count |-> Len(data), ids |-> bk.ids]

\* search: "if output_fields is None: output_fields = [text, category, metadata]"
SearchFields(output_fields) ==
    IF output_fields = None THEN <<"text", "category", "metadata">>
    ELSE output_fields[1]

\* search: one formatted hit list per query vector
MilvusSearch(bk) ==
    [exc |-> bk.exc,
     formatted |-> [i \in 1..Len(bk.results) |->
                      [j \in 1..Len(bk.results[i]) |->
                         [id |-> bk.results[i][j].id,
                          distance |-> bk.results[i][j].distance,
                          entity |-> bk.results[i][j].entity]]]]

----------------------------------------------------------------------------
(* The handlers of main.py.  A response is what the client gets, with the  *)
(* request it answers and the calls the handler made on the model and on   *)
(* the store.  An exception no handler catches is answered with 500.       *)

Response(op, name, code, status, req, body, storeCalls, encodeCalls) ==
    [op |-> op, name |-> name, code |-> code, status |-> status, req |-> req,
     body |-> body, storeCalls |-> storeCalls, encodeCalls |-> encodeCalls]

NoResponse == Response("none", "", 0, "none", <<>>, <<>>, <<>>, 0)

\* what is kept of the response before the last: of a create_collection,
\* its name, status and requested dimension
Summary(r) ==
    IF r.op = "create"
    THEN [op |-> r.op, name |-> r.name, status |-> r.status,
          dim |-> r.req.dimension]
    ELSE [op |-> "other", name |-> "", status |-> "", dim |-> 0]

\* embed
EmbedResponse(loaded, text) ==
    IF ~loaded
    THEN Response("embed", "", 500, "AttributeError", [text |-> text], <<>>, <<>>, 1)
    ELSE Response("embed", "", 200, "ok", [text |-> text],
                  [embedding |-> encode(text), dimension |-> DIMENSION], <<>>, 1)

\* embed_batch: "if not req.texts: raise HTTPException(400)"
EmbedBatchResponse(loaded, texts) ==
    IF Len(texts) = 0
    THEN Response("embed_batch", "", 400, "EmptyBatch", [texts |-> texts],
                  <<>>, <<>>, 0)
    ELSE IF ~loaded
    THEN Response("embed_batch", "", 500, "AttributeError", [texts |-> texts],
                  <<>>, <<>>, 1)
    ELSE Response("embed_batch", "", 200, "ok", [texts |-> texts],
                  [embeddings |-> encode_batch(texts), dimension |-> DIMENSION,
                   count |-> Len(encode_batch(texts))], <<>>, 1)

\* insert: the dict appended to data for one item
Record(item, embedding) ==
    [text |-> item.text, category |-> item.category,
     metadata |-> item.metadata, embedding |-> embedding]

\* insert: "for item in req.items", from item i on, data so far in acc
RECURSIVE InsertLoop(_, _, _, _)
InsertLoop(items, auto_embed, i, acc) ==
    IF i > Len(items) THEN acc
    ELSE IF auto_embed
    THEN InsertLoop(items, auto_embed, i + 1,
                    [acc EXCEPT !.data = Append(@, Record(items[i], encode(items[i].text))),
                                !.encodes = @ + 1])
    ELSE IF items[i].embedding = None
    THEN [acc EXCEPT !.error = "MissingEmbedding"]
    ELSE InsertLoop(items, auto_embed, i + 1,
                    [acc EXCEPT !.data = Append(@, Record(items[i], items[i].embedding[1]))])

\* variant: an item without embedding is skipped instead of refused
InsertRecordsSkipMissing(items, auto_embed) ==
    InsertLoop(IF auto_embed THEN items
               ELSE SelectSeq(items, LAMBDA it : it.embedding # None),
               auto_embed, 1, [error |-> NoExc, data |-> <<>>, encodes |-> 0])

\* variant: with auto_embed, an embedding the client supplied is kept
InsertRecordsKeepClient(items, auto_embed) ==
    LET built == InsertLoop(items, auto_embed, 1,
                            [error |-> NoExc, data |-> <<>>, encodes |-> 0])
    IN  IF ~auto_embed THEN built
        ELSE [built EXCEPT !.data =
                [i \in 1..Len(items) |->
                   IF items[i].embedding = None THEN built.data[i]
                   ELSE Record(items[i], items[i].embedding[1])]]

InsertRecords(items, auto_embed) ==
    InsertLoop(items, auto_embed, 1, [error |-> NoExc, data |-> <<>>, encodes |-> 0])

\* insert: TRUE when the handler goes on to "await app.state.milvus.insert"
InsertCallsStore(items, auto_embed) ==
    InsertRecords(items, auto_embed).error = NoExc

\* insert: the response, bk being the store's answer when it was called
InsertResponse(name, items, auto_embed, bk) ==
    LET built == InsertRecords(items, auto_embed)
        req == [items |-> items, auto_embed |-> auto_embed]
        call == [call |-> "insert", collection_name |-> name, data |-> built.data]
        r == MilvusInsert(bk, built.data)
    IN  IF ~InsertCallsStore(items, auto_embed)
        THEN Response("insert", name, 400, built.error, req, <<>>, <<>>, built.encodes)
        ELSE IF r.exc # NoExc
        THEN Response("insert", name, 500, r.exc, req, <<>>, <<call>>, built.encodes)
        ELSE Response("insert", name, 200, "ok", req,
                      [insert_count |-> r.insert_count], <<call>>, built.encodes)

\* search, search_by_vector: "except ValueError: raise HTTPException(404)"
SearchErrorCode(exc) == IF exc = "ValueError" THEN 404 ELSE 500

\* search, search_by_vector: hits of results[0], with entity.get defaults
Get(entity, field, default) ==
    IF field \in DOMAIN entity THEN entity[field] ELSE default

SearchHits(results) ==
    IF Len(results) = 0 THEN <<>>
    ELSE [j \in 1..Len(results[1]) |->
            [id |-> results[1][j].id,
             distance |-> results[1][j].distance,
             text |-> Get(results[1][j].entity, "text", ""),
             category |-> Get(results[1][j].entity, "category", ""),
             metadata |-> Get(results[1][j].entity, "metadata", "{}")]]

SearchResponse(op, name, req, bk, encodeCalls) ==
    LET r == MilvusSearch(bk)
        call == [call |-> "search", collection_name |-> name]
    IN  IF r.exc # NoExc
        THEN Response(op, name, SearchErrorCode(r.exc), r.exc, req, <<>>,
                      <<call>>, encodeCalls)
        ELSE Response(op, name, 200, "ok", req,
                      [results |-> SearchHits(r.formatted),
                       count |-> Len(SearchHits(r.formatted))],
                      <<call>>, encodeCalls)

\* variant: the probe's failure is swallowed without clearing milvus_ok
HealthProbeUnchecked(client_ok, probe) == client_ok

\* health: the probe's exception is caught and folded into milvus_ok
HealthProbe(client_ok, probe) == client_ok /\ probe.exc = NoExc

HealthResponse(model_ok, client_ok, probe) ==
    LET milvus_ok == HealthProbe(client_ok, probe)
    IN  Response("health", "", 200,
                 IF model_ok /\ milvus_ok THEN "ok" ELSE "degraded",
                 <<>>,
                 [model |-> [loaded |-> model_ok, dimension |-> DIMENSION],
                  milvus |-> [connected |-> milvus_ok,
                              collections |-> IF milvus_ok THEN probe.names
                                              ELSE <<>>]],
                 <<>>, 0)

----------------------------------------------------------------------------
(* Actions of the service *)

Init ==
    /\ modelAvailable \in BOOLEAN
    /\ milvusAvailable \in BOOLEAN
    /\ embInstance = FALSE
    /\ embModel = FALSE
    /\ mvInstance = FALSE
    /\ mvClient = FALSE
    /\ epc = [k \in Callers |-> "idle"]
    /\ eout = [k \in Callers |-> "none"]
    /\ mpc = [k \in Callers |-> "idle"]
    /\ mout = [k \in Callers |-> "none"]
    /\ loadAttempts = 0
    /\ loadFailures = 0
    /\ connectAttempts = 0
    /\ appState = "starting"
    /\ reachable = TRUE
    /\ colls = <<>>
    /\ rows = [n \in Names |-> <<>>]
    /\ pending = [p \in Clients |-> None]
    /\ resp = NoResponse
    /\ prev = Summary(NoResponse)

\* the service takes its next step once the last response has been sent
Serving == appState = "serving" /\ resp = NoResponse

\* a handler returns r (or raises, and r is the 500 that answers it)
Complete(r) ==
    /\ resp' = r
    /\ prev' = prev

\* the response goes out to the client
Respond ==
    /\ resp # NoResponse
    /\ resp' = NoResponse
    /\ prev' = Summary(resp)
    /\ UNCHANGED <<singletonVars, callerVars, appState, reachable, colls, rows,
                   pending>>

\* lifespan: both get_instance calls, made once before any request is served;
\* an exception of either ends the startup
Lifespan ==
    /\ appState = "starting"
    /\ loadAttempts' = loadAttempts + 1
    /\ IF ~modelAvailable
         THEN /\ appState' = "failed"
              /\ loadFailures' = loadFailures + 1
              /\ UNCHANGED <<embInstance, embModel, mvInstance, mvClient,
                             connectAttempts>>
         ELSE /\ embModel' = TRUE
              /\ embInstance' = TRUE
              /\ mvInstance' = TRUE
              /\ mvClient' = Connect(milvusAvailable)
              /\ connectAttempts' = connectAttempts + 1
              /\ loadFailures' = loadFailures
              /\ appState' = IF Connect(milvusAvailable) THEN "serving"
                                                         ELSE "failed"
    /\ UNCHANGED <<modelAvailable, milvusAvailable, epc, eout, mpc, mout,
                   reachable, colls, rows, pending, resp, prev>>

\* the Milvus server goes away or comes back
BackendFlip ==
    /\ Serving
    /\ reachable' = ~reachable
    /\ UNCHANGED <<singletonVars, callerVars, appState, colls, rows, pending,
                   resp, prev>>

Embed(text) ==
    /\ Serving
    /\ Complete(EmbedResponse(embModel, text))
    /\ UNCHANGED <<singletonVars, callerVars, appState, reachable, colls, rows,
                   pending>>

EmbedBatch(texts) ==
    /\ Serving
    /\ Complete(EmbedBatchResponse(embModel, texts))
    /\ UNCHANGED <<singletonVars, callerVars, appState, reachable, colls, rows,
                   pending>>

\* create_collection up to its second await: list_collections, then either
\* the answer already_exists or the schema for the create to come
CreateCollectionCheck(p, name, dim) ==
    /\ Serving
    /\ pending[p] = None
    /\ LET listed == BkList(reachable, colls)
           req == [name |-> name, dimension |-> dim]
       IN  IF listed.exc # NoExc
           THEN /\ Complete(Response("create", name, 500, listed.exc, req,
                                     <<>>, <<>>, 0))
                /\ pending' = pending
           ELSE IF AlreadyExists(name, listed.names)
           THEN /\ Complete(Response("create", name, 200, "already_exists", req,
                                     [collection |-> name,
                                      status |-> "already_exists"], <<>>, 0))
                /\ pending' = pending
           ELSE /\ pending' = [pending EXCEPT ![p] = Some(req)]
                /\ UNCHANGED <<resp, prev>>
    /\ UNCHANGED <<singletonVars, callerVars, appState, reachable, colls, rows>>

\* create_collection from "await self.client.create_collection" on
CreateCollectionFinish(p) ==
    /\ Serving
    /\ pending[p] # None
    /\ LET req == pending[p][1]
           bk == BkCreate(reachable, colls, req.name, req.dimension)
           call == [call |-> "create_collection", collection_name |-> req.name,
                    effect |-> bk.effect]
       IN  /\ colls' = bk.colls
           /\ IF bk.exc # NoExc
              THEN Complete(Response("create", req.name, 500, bk.exc, req,
                                     <<>>, <<call>>, 0))
              ELSE Complete(Response("create", req.name, 200, "created", req,
                                     [collection |-> req.name,
                                      status |-> "created"], <<call>>, 0))
    /\ pending' = [pending EXCEPT ![p] = None]
    /\ UNCHANGED <<singletonVars, callerVars, appState, reachable, rows>>

ListCollections ==
    /\ Serving
    /\ LET listed == BkList(reachable, colls)
       IN  IF listed.exc # NoExc
           THEN Complete(Response("list", "", 500, listed.exc, <<>>, <<>>, <<>>, 0))
           ELSE Complete(Response("list", "", 200, "ok", <<>>,
                                  [collections |-> listed.names], <<>>, 0))
    /\ UNCHANGED <<singletonVars, callerVars, appState, reachable, colls, rows,
                   pending>>

DropCollection(name) ==
    /\ Serving
    /\ LET bk == BkDrop(reachable, colls, name)
           call == [call |-> "drop_collection", collection_name |-> name]
       IN  /\ colls' = bk.colls
           /\ rows' = IF bk.exc = NoExc THEN [rows EXCEPT ![name] = <<>>] ELSE rows
           /\ IF bk.exc # NoExc
              THEN Complete(Response("drop", name, 500, bk.exc, <<>>, <<>>,
                                     <<call>>, 0))
              ELSE Complete(Response("drop", name, 200, "dropped", <<>>,
                                     [collection |-> name, status |-> "dropped"],
                                     <<call>>, 0))
    /\ UNCHANGED <<singletonVars, callerVars, appState, reachable, pending>>

Insert(name, items, auto_embed) ==
    /\ Serving
    /\ Len(rows[name]) + Len(items) <= MaxRows
    /\ LET bk == BkInsert(reachable, colls, rows[name], name,
                          InsertRecords(items, auto_embed).data)
       IN  /\ rows' = IF InsertCallsStore(items, auto_embed)
                      THEN [rows EXCEPT ![name] = bk.rows]
                      ELSE rows
           /\ Complete(InsertResponse(name, items, auto_embed, bk))
    /\ UNCHANGED <<singletonVars, callerVars, appState, reachable, colls, pending>>

Search(name, query, limit, output_fields) ==
    /\ Serving
    /\ LET req == [query |-> query, limit |-> limit,
                   output_fields |-> output_fields]
       IN  IF ~embModel
           THEN Complete(Response("search", name, 500, "AttributeError", req,
                                  <<>>, <<>>, 1))
           ELSE Complete(SearchResponse("search", name, req,
                    BkSearch(reachable, colls, rows[name], name,
                             <<encode(query)>>, limit,
                             SearchFields(output_fields)), 1))
    /\ UNCHANGED <<singletonVars, callerVars, appState, reachable, colls, rows,
                   pending>>

SearchByVector(name, query_vector, limit, output_fields) ==
    /\ Serving
    /\ LET req == [query_vector |-> query_vector, limit |-> limit,
                   output_fields |-> output_fields]
       IN  Complete(SearchResponse("search_by_vector", name, req,
                    BkSearch(reachable, colls, rows[name], name,
                             <<query_vector>>, limit,
                             SearchFields(output_fields)), 0))
    /\ UNCHANGED <<singletonVars, callerVars, appState, reachable, colls, rows,
                   pending>>

Health ==
    /\ Serving
    /\ Complete(HealthResponse(embModel, mvClient, BkList(reachable, colls)))
    /\ UNCHANGED <<singletonVars, callerVars, appState, reachable, colls, rows,
                   pending>>

----------------------------------------------------------------------------
(* Specifications *)

\* a request that is not the continuation of a create_collection
Request ==
    \/ \E t \in Texts : Embed(t)
    \/ \E ts \in TextBatches : EmbedBatch(ts)
    \/ \E p \in Clients, n \in Names, d \in Dims : CreateCollectionCheck(p, n, d)
    \/ ListCollections
    \/ \E n \in Names : DropCollection(n)
    \/ \E n \in Names, items \in Batches, a \in BOOLEAN : Insert(n, items, a)
    \/ \E n \in Names, q \in Texts, l \in Limits, f \in OutputFields :
          Search(n, q, l, f)
    \/ \E n \in Names, v \in Vectors, l \in Limits, f \in OutputFields :
          SearchByVector(n, v, l, f)
    \/ Health

\* requests are served concurrently and interleave at their awaits
Next ==
    \/ Lifespan
    \/ BackendFlip
    \/ Respond
    \/ Request
    \/ \E p \in Clients : CreateCollectionFinish(p)

Spec == Init /\ [][Next]_vars

\* one request at a time: none starts while a create_collection is in flight
NoneInFlight == \A p \in Clients : pending[p] = None

NextSeq ==
    \/ Lifespan
    \/ BackendFlip
    \/ Respond
    \/ NoneInFlight /\ Request
    \/ \E p \in Clients : CreateCollectionFinish(p)

SpecSeq == Init /\ [][NextSeq]_vars

\* callers of the two get_instance methods, preempted between statements
NextSingleton ==
    \E k \in Callers :
        \/ EmbCheck(k)
        \/ EmbInitCheck(k)
        \/ EmbLoad(k)
        \/ EmbAssign(k)
        \/ MvGetInstance(k)

SpecSingleton == Init /\ [][NextSingleton]_vars

----------------------------------------------------------------------------
(* Properties *)

Done(pc) == {k \in Callers : pc[k] = "done"}

\* C1: concurrent first callers of either get_instance cause exactly one
\* initialization attempt (one model load, one connect) and all observe the
\* same outcome: all the ready instance (for MilvusManager a connected one),
\* or all the initialization failure.
C1_OneInitSameOutcome ==
    /\ loadAttempts <= 1
    /\ connectAttempts <= 1
    /\ \A j, k \in Done(epc) : eout[j] = eout[k]
    /\ \A j, k \in Done(mpc) : mout[j] = mout[k]
    /\ \A k \in Done(mpc) : mout[k] \in {"connected", "raised"}

\* C2: Failed is terminal for the embedding singleton: once a model load has
\* failed, no later step loads the model again.
C2_FailedIsTerminal ==
    [][loadFailures >= 1 => loadAttempts' = loadAttempts]_vars

MissingEmbedding(items) == \E i \in 1..Len(items) : items[i].embedding = None

\* C3: requests served one at a time, the storage backend answering: a
\* create_collection that found the name absent returns "created" and the
\* name is then listed once; a create_collection of the same name right
\* after it returns "already_exists" with status 200, makes no backend
\* create, and the name is still listed once with the dimension of the
\* first call.
C3_CreateTwice ==
    (resp.op = "create" /\ reachable) =>
        /\ resp.storeCalls # <<>> =>
              /\ resp.code = 200
              /\ resp.status = "created"
              /\ Count(resp.name, BkNames(colls)) = 1
              /\ BkDim(colls, resp.name) = resp.req.dimension
        /\ (prev.op = "create" /\ prev.status = "created"
              /\ prev.name = resp.name) =>
              /\ resp.code = 200
              /\ resp.status = "already_exists"
              /\ resp.body.status = "already_exists"
              /\ resp.storeCalls = <<>>
              /\ Count(resp.name, BkNames(colls)) = 1
              /\ BkDim(colls, resp.name) = prev.dim

C3_Witness ==
    /\ resp.op = "create" /\ reachable
    /\ prev.op = "create" /\ prev.status = "created" /\ prev.name = resp.name
    /\ resp.status = "already_exists"
    /\ resp.req.dimension # prev.dim

\* C4: an insert with auto_embed false in which some item, at any position,
\* has no embedding is answered 400 MissingEmbedding; the handler makes no
\* call on the store and the step leaves every collection's rows as they were.
C4_MissingEmbeddingNoWrite ==
    [][(resp = NoResponse /\ resp'.op = "insert" /\ ~resp'.req.auto_embed
          /\ MissingEmbedding(resp'.req.items)) =>
         (/\ resp'.code = 400
          /\ resp'.status = "MissingEmbedding"
          /\ resp'.storeCalls = <<>>
          /\ rows' = rows
          /\ colls' = colls)]_vars

C4_Witness ==
    /\ resp.op = "insert" /\ ~resp.req.auto_embed
    /\ Len(resp.req.items) = 2
    /\ resp.req.items[1].embedding # None
    /\ resp.req.items[2].embedding = None
    /\ BkHas(colls, resp.name)
    /\ reachable
    /\ resp.code = 400

\* C5: an insert of n items answered 200 made exactly one store.insert call,
\* with n records in the order of the items, each with its item's text,
\* category and metadata and, with auto_embed, the embedding encode(text)
\* whatever the client supplied (without it, the client's embedding); the
\* response's insert_count is n.
C5_InsertOneBatch ==
    (resp.op = "insert" /\ resp.code = 200) =>
        LET items == resp.req.items
            n == Len(items)
        IN  /\ Len(resp.storeCalls) = 1
            /\ resp.storeCalls[1].call = "insert"
            /\ resp.storeCalls[1].collection_name = resp.name
            /\ Len(resp.storeCalls[1].data) = n
            /\ \A i \in 1..n :
                  LET d == resp.storeCalls[1].data[i]
                  IN  /\ d.text = items[i].text
                      /\ d.category = items[i].category
                      /\ d.metadata = items[i].metadata
                      /\ d.embedding = IF resp.req.auto_embed
                                       THEN encode(items[i].text)
                                       ELSE items[i].embedding[1]
            /\ resp.body.insert_count = n
            /\ resp.encodeCalls = IF resp.req.auto_embed THEN n ELSE 0

C5_Witness ==
    /\ resp.op = "insert" /\ resp.code = 200
    /\ resp.req.auto_embed
    /\ Len(resp.req.items) = 2
    /\ resp.req.items[1].text # resp.req.items[2].text
    /\ resp.req.items[1].embedding # None
    /\ Len(rows[resp.name]) = 2

\* C6: a text or vector search of a collection that does not exist is
\* answered 404 (CollectionNotFound), not with a server error, and has no
\* hits.
C6_SearchMissingIs404 ==
    (resp.op \in {"search", "search_by_vector"} /\ reachable
        /\ ~BkHas(colls, resp.name)) =>
        (resp.code = 404 /\ resp.body = <<>>)

\* C7: health always answers 200: status "ok" exactly when the model is
\* loaded and the list_collections probe succeeded, "degraded" otherwise; a
\* failed probe shows as connected = FALSE with no collections, and
\* model.loaded is the model's state whatever the storage does.
C7_HealthNeverRaises ==
    resp.op = "health" =>
        /\ resp.code = 200
        /\ resp.status \in {"ok", "degraded"}
        /\ resp.status = "ok" <=> (embModel /\ mvClient /\ reachable)
        /\ resp.body.milvus.connected = (mvClient /\ reachable)
        /\ ~reachable => resp.body.milvus.collections = <<>>
        /\ resp.body.model.loaded = embModel

C7_Witness ==
    /\ resp.op = "health"
    /\ ~reachable
    /\ resp.status = "degraded"
    /\ resp.body.model.loaded
    /\ colls # <<>>

\* C8: a vector search whose vector's length differs from the collection's
\* dimension is answered with a client validation error (4xx) and no
\* result list.
C8_WrongDimensionIsClientError ==
    (resp.op = "search_by_vector" /\ reachable /\ BkHas(colls, resp.name)
        /\ resp.req.query_vector.dim # BkDim(colls, resp.name)) =>
        (resp.code \in {400, 422} /\ resp.body = <<>>)

\* C9: embed_batch and insert with no items are both answered 400
\* (EmptyBatch) before any call on the model or on the store.
C9_EmptyBatchRejected ==
    /\ (resp.op = "embed_batch" /\ Len(resp.req.texts) = 0) =>
          (resp.code = 400 /\ resp.encodeCalls = 0 /\ resp.storeCalls = <<>>)
    /\ (resp.op = "insert" /\ Len(resp.req.items) = 0) =>
          (resp.code = 400 /\ resp.encodeCalls = 0 /\ resp.storeCalls = <<>>)

\* C10: with create_collection requests running concurrently and the
\* backend answering, the check and the backend create act as one step: no
\* request fails, and a request answers "created" only when its backend
\* create found the name absent and created it (so one backend create and
\* one "created" per absent name).
C10_CreateIsAtomic ==
    (resp.op = "create" /\ reachable) =>
        /\ resp.code = 200
        /\ \A i \in 1..Len(resp.storeCalls) :
              resp.storeCalls[i].effect = "created"

====
